---- MODULE Spec2Model ----
(***************************************************************************)
(* Model of the Cloudflare origin gate of ncruces/go-cloudflare, package   *)
(* origin: the range cache (ips, mutex, refresh), updateIPs, loadIPs and   *)
(* checkIP, as called concurrently by connection tasks and by the          *)
(* goroutine that Listen starts; and the two callers of checkIP: the       *)
(* GetCertificate callback of the server that NewServerWithCerts builds    *)
(* (SpecTLS), and the Accept of the listener (SpecListener).               *)
(*                                                                         *)
(* Addresses are W-bit integers.  A network is [ip, bits]; a line of a     *)
(* fetched list is the text "a/b", kept as the pair [a, b] of the numbers  *)
(* written in it (anything else is a line ParseCIDR rejects).              *)
(* The clock counts whole hours.                                           *)
(*                                                                         *)
(* The other packages of the repository have a specification each, over    *)
(* variables of their own: cforigin, the gate with a plain slice (SpecCF); *)
(* dyndns, SyncDNS and its updater (SpecDyn); serveMux, the handler of the *)
(* origin server (SpecMux); acmecf, the DNS-01 solver (SpecAcme); dns, the *)
(* Dial of the DNS-over-TLS resolver (SpecDns).                            *)
(***************************************************************************)
EXTENDS Integers, Sequences, FiniteSets, TLC

\* ---------------------------------------------------------------- bounds
NConns   == 1      \* connections handled concurrently (beside Listen's goroutine)
MaxTime  == 6      \* the clock stops here

W        == 2      \* bits in an address

MaxHost  == 5      \* longest Host header, in tokens

MaxRecords == 3    \* TXT records the API creates at most

\* ------------------------------------------------------ program constants
Hour == 1          \* time.Hour, in clock units

\* Task 0 is the goroutine of Listen ("go updateIPs()"); the others serve connections.
Tasks == 0..NConns
IsConn(t) == t > 0

Addrs == 0..(2^W - 1)
NoIP  == -1        \* the nil net.IP of an address that is not TCP, UDP or IP

\* ------------------------------------------------------------- net.IPNet
\* net.ParseCIDR: the text must be "a/b" with a an address and 0 <= b <= W;
\* the network returned is the address masked to b bits.
Pow2(n) == 2^n

Masked(a, b) == (a \div Pow2(W - b)) * Pow2(W - b)

ValidLine(l) == l.a \in Addrs /\ l.b \in 0..W

ParseCIDR(l) == [ip |-> Masked(l.a, l.b), bits |-> l.b]

\* net.IPNet.Contains: a nil IP is in no network; otherwise compare under the mask.
Contains(n, x) == x # NoIP /\ Masked(x, n.bits) = n.ip

\* Lines the two endpoints may serve: "1/1" and "3/2" parse (to 0/1 and 3/2);
\* a blank line and "0/3", whose prefix is longer than an address, do not.
Slash1  == [a |-> 1, b |-> 1]
Slash2  == [a |-> 3, b |-> 2]
Blank   == [a |-> -1, b |-> 0]
TooLong == [a |-> 0, b |-> W + 1]

\* The bodies they may serve.
Bodies ==
    { <<>>, <<Slash1>>, <<Slash2>>, <<Blank>>, <<Slash1, TooLong>> }

\* What one HTTP GET can come back with: no response at all (or the one-second
\* timeout), a status that is not 200, or a body, whose reading may fail.
Responses ==
    [netErr : {TRUE}, status : {200}, body : {<<>>}, scanErr : {FALSE}]
      \cup [netErr : {FALSE}, status : {503}, body : {<<>>}, scanErr : {FALSE}]
      \cup [netErr : {FALSE}, status : {200}, body : Bodies, scanErr : BOOLEAN]

\* loadIPs: the scanner loop, stopping at the first line that does not parse.
RECURSIVE ScanLines(_, _)
ScanLines(body, acc) ==
    IF body = <<>> THEN [err |-> FALSE, ips |-> acc]
    ELSE IF ~ValidLine(Head(body)) THEN [err |-> TRUE, ips |-> <<>>]
    ELSE ScanLines(Tail(body), Append(acc, ParseCIDR(Head(body))))

loadIPs(resp) ==
    IF resp.netErr THEN [err |-> TRUE, ips |-> <<>>]
    ELSE IF resp.status # 200 THEN [err |-> TRUE, ips |-> <<>>]
    ELSE LET r == ScanLines(resp.body, <<>>)
         IN  IF r.err THEN r
             ELSE IF resp.scanErr THEN [err |-> TRUE, ips |-> <<>>]
             ELSE r

\* A loop that looks at the first network only.
InRangesFirstOnly(nets, x) == nets # <<>> /\ Contains(Head(nets), x)

\* A loop that falls through to "return true".
RECURSIVE InRangesDefaultTrue(_, _)
InRangesDefaultTrue(nets, x) ==
    IF nets = <<>> THEN TRUE
    ELSE IF Contains(Head(nets), x) THEN TRUE
    ELSE InRangesDefaultTrue(Tail(nets), x)

\* The range loops of checkIP: true at the first network that contains ip.
RECURSIVE InRanges(_, _)
InRanges(nets, x) ==
    IF nets = <<>> THEN FALSE
    ELSE IF Contains(Head(nets), x) THEN TRUE
    ELSE InRanges(Tail(nets), x)

\* "Membership" as the specification speaks of it.
Covers(nets, x) == \E i \in 1..Len(nets) : Contains(nets[i], x)

\* The remote addresses a connection can have, and checkIP's type switch.
RemoteAddrs ==
    [net : {"tcp"}, ip : {1, 2, 3}] \cup [net : {"unix"}, ip : {0}]

AddrIP(addr) == IF addr.net \in {"tcp", "udp", "ip"} THEN addr.ip ELSE NoIP

\* ----------------------------------------------------------------- state
VARIABLES
    ips,        \* atomic.Value: [present, v]; present = FALSE is the nil interface
    mutex,      \* sync.Mutex: TRUE while locked
    refresh,    \* time of the last attempt (0 is the zero time.Time)
    now,        \* the clock
    alive,      \* FALSE once the process has exited
    panicked,   \* TRUE once the type assertion of the throttled branch panicked
    pc,         \* per task: where it is
    ip,         \* per task: the IP checkIP extracted
    ipv4,       \* per task: updateIPs' local ipv4
    \* history, read by the properties only
    inLoaded,   \* per task: the IP was in the set checkIP loaded
    covered,    \* per task: the IP was in some set published during the call so far
    updCalls,   \* per task: calls of updateIPs made by the current call
    tries,      \* per task: fetch attempts made by the current call
    before,     \* per task: what ips held when its fetch attempt began
    timing,     \* whether the three stopwatch variables below are kept
    waited,     \* per task: time since it called updateIPs, up to Hour + 1
    early,      \* per task: when it called updateIPs, at most one hour had passed
                \* since the call that made the latest fetch attempt was made
    lastAt,     \* clock at the latest fetch attempt (0: none yet)
    sinceStart, \* time since the call that made the latest attempt was made, up to Hour + 1
    ev,         \* the call that ended last: what it was given and what came of it
    \* the callers of checkIP
    filterIPs,  \* NewServerWithCerts' argument: whether GetCertificate calls checkIP
    pullCA,     \* NewServerWithCerts' argument: the origin-pull pool, or nil
    cert,       \* NewServerWithCerts' argument: the server's certificates, in order
    server,     \* the http.Server that NewServerWithCerts returned (its TLSConfig)
    frame,      \* per task: the caller that waits for its checkIP call
    out         \* what the caller that ended last returned

\* Package cforigin, the gate with a plain slice for the range list.
VARIABLES
    cfIps,      \* var ips []*net.IPNet (nil is <<>>)
    cfMutex,    \* var mutex sync.Mutex: TRUE while locked
    cfRefresh,  \* var refresh time.Time (0 is the zero time.Time)
    cfNow,      \* the clock
    cfAlive,    \* FALSE once the process has exited
    cfPc,       \* per task: where its handshake is
    cfIp,       \* per task: checkIP's local ip
    cfV4,       \* per task: updateIPs' local ipv4
    cfNew,      \* per task: append(ipv4, ipv6...), about to be assigned to ips
    cfOut       \* the checkIP call that ended last: its error, and how it read ips

cforigin == <<cfIps, cfMutex, cfRefresh, cfNow, cfAlive, cfPc, cfIp, cfV4, cfNew, cfOut>>

\* Package dyndns: SyncDNS and its updater.
VARIABLES
    dynPc,      \* where SyncDNS is: "new", "returned", "A", "AAAA" or "sleep"
    up,         \* the updater: record IDs a, aaaa and cached contents ipv4, ipv6
    zone,       \* Cloudflare's zone: the content of each record, by ID
    pub,        \* the public IP of the host, by record type
    dynErr,     \* updateRecords' named result err
    dynLast     \* the half of updateRecords that ran last: what it saw and did

dyndns == <<dynPc, up, zone, pub, dynErr, dynLast>>

\* Package origin, the handler of its server: serveMux.
VARIABLES
    muxRequest, \* the request being served: TLS or not, server name, Host header
    muxStatus,  \* the status written for it (0: none yet)
    muxServed   \* whether http.DefaultServeMux was invoked for it

mux == <<muxRequest, muxStatus, muxServed>>

\* Package acmecf: one dns01Solver and the zone it works on.
VARIABLES
    acmeRecord, \* s.record: the ID of the remembered TXT record (0 is "")
    acmeZone,   \* the TXT records of the zone: ID, Name, Content
    acmeNext,   \* the ID the API gives to the next record it creates
    acmeKept,   \* the record created or adopted by the latest Present that returned nil
    acmeLast    \* the call that ended last: what it was, its error, what it deleted

acmecf == <<acmeRecord, acmeZone, acmeNext, acmeKept, acmeLast>>

\* Package dns: the resolver of NewTLSResolver and the calls of its Dial.
VARIABLES
    index,      \* the index that the Dial closure shares among its calls
    dialPc,     \* per task: where its call of Dial is
    dialI,      \* per task: the loop counter i
    dialAt,     \* per task: the index it read for the address it dialled last
    dialTmp,    \* per task: the index it read in order to add one to it
    dialLast    \* the call that returned last: by which task, its error, its attempts

dns == <<index, dialPc, dialI, dialAt, dialTmp, dialLast>>

\* Package origin: the state of the gate and of its callers.
origin == <<ips, mutex, refresh, now, alive, panicked, pc, ip, ipv4,
            inLoaded, covered, updCalls, tries, before, timing, waited, early, lastAt,
            sinceStart, ev, filterIPs, pullCA, cert, server, frame, out>>

vars == <<origin, cforigin, dyndns, mux, acmecf, dns>>

\* What no step of package origin changes: what it was constructed with, and the
\* other packages.
setup ==
    <<timing, filterIPs, pullCA, cert, server, cforigin, dyndns, mux, acmecf, dns>>

\* ----------------------------------------------------- callers of checkIP
\* A caller waiting for checkIP, and what a caller returned: none yet.
NoFrame == [kind |-> "none"]

NoOut == [kind |-> "none"]

\* pullCA: nil, or the pool holding the origin-pull CA.
NoPool == "nil"

NoServer == [kind |-> "none"]

\* The errors of the package; NoErr is the nil error.
errNotCloudflare == "not a Cloudflare IP"

errMissingServerName == "missing server name"

errMismatchedServerName == "mismatched server name"

NoErr == "nil"

\* A tls.Certificate: the names its leaf is valid for and the algorithm of its key.
CertA == [names |-> {"a"}, alg |-> "rsa"]

CertAB == [names |-> {"a", "b"}, alg |-> "ecdsa"]

\* The certificate lists a server is built with.
CertLists == { <<>>, <<CertAB>>, <<CertAB, CertA>> }

Pools == {NoPool, "origin-pull"}

\* A *tls.Certificate is an index into cert; NoCert is the nil pointer.
NoCert == 0

\* tls.ClientHelloInfo: the server name, the signature algorithms the client
\* takes, and the remote address of its connection.
Hellos ==
    [ServerName : {"", "a", "c"},
     algs : {{"rsa"}, {"rsa", "ecdsa"}},
     addr : RemoteAddrs]

\* info.SupportsCertificate(c) == nil: the name, when one was sent, is one of the
\* leaf's, and the client takes the algorithm of the key.
SupportsCertificate(info, c) ==
    /\ info.ServerName = "" \/ info.ServerName \in c.names
    /\ c.alg \in info.algs

\* A server that is given the pool and never told to ask for a client certificate.
NewServerWithCertsNoAuth(filter, pool, certs) ==
    [kind |-> "server",
     MinVersion |-> "TLS13",
     GetCertificate |-> [filterIPs |-> filter, cert |-> certs],
     ClientCAs |-> IF pool # NoPool THEN pool ELSE NoPool,
     ClientAuth |-> "NoClientCert"]

\* NewServerWithCerts: the tls.Config of the server it returns.
NewServerWithCerts(filter, pool, certs) ==
    [kind |-> "server",
     MinVersion |-> "TLS13",
     GetCertificate |-> [filterIPs |-> filter, cert |-> certs],
     ClientCAs |-> IF pool # NoPool THEN pool ELSE NoPool,
     ClientAuth |-> IF pool # NoPool THEN "RequireAndVerifyClientCert" ELSE "NoClientCert"]

\* What GetCertificate returns, with the hello it answered and whether it called
\* checkIP.
Answer(found, err, info, gated) ==
    [kind |-> "cert", cert |-> found, err |-> err,
     ServerName |-> info.ServerName, algs |-> info.algs, gated |-> gated]

\* A callback that hands out the certificate along with errNotCloudflare.
SelectedWithError(fr, allowed) ==
    IF allowed THEN Answer(fr.found, NoErr, fr, TRUE)
    ELSE Answer(fr.found, errNotCloudflare, fr, TRUE)

\* GetCertificate, after checkIP: "if filterIPs && !checkIP(info)", "return found, nil".
Selected(fr, allowed) ==
    IF allowed THEN Answer(fr.found, NoErr, fr, TRUE)
    ELSE Answer(NoCert, errNotCloudflare, fr, TRUE)

\* The error of an operation on a closed network connection, and no operation yet.
errClosed == "use of closed network connection"

NoOp == "none"

\* What Accept returns, and what became of it since: the net.Conn (nil, the
\* connection c that the inner listener accepted, or conn{c}), Accept's error,
\* whether c is closed, whether bytes were read from c and written to c through
\* the value, the error of the last Read or Write on the value, and whether Close
\* was called on it; allowed is what checkIP said of c's remote address.
Conn(value, err, closed, allowed) ==
    [kind |-> "conn", value |-> value, err |-> err, closed |-> closed,
     rd |-> FALSE, wr |-> FALSE, io |-> NoOp, shut |-> FALSE, allowed |-> allowed]

\* An Accept without "if !checkIP(c.RemoteAddr())".
AcceptedUnchecked(allowed) == Conn("c", NoErr, FALSE, allowed)

\* Accept, after checkIP: "c.Close(); return conn{c}, nil" or "return c, nil".
Accepted(allowed) ==
    IF allowed THEN Conn("c", NoErr, FALSE, TRUE)
    ELSE Conn("conn{c}", NoErr, TRUE, FALSE)

\* The caller fr of checkIP goes on with checkIP's result.
Resume(fr, allowed) ==
    IF fr.kind = "hello" THEN Selected(fr, allowed)
    ELSE IF fr.kind = "accept" THEN Accepted(allowed)
    ELSE out

Nil == [present |-> FALSE, v |-> <<>>]

Stored(nets) == [present |-> TRUE, v |-> nets]

\* The record of one ended call, for a task that called updateIPs: how it ended,
\* checkIP's result, and where the IP was found: in the set checkIP loaded, in some
\* set published during the call, in the slice nets that updateIPs returned (nil is
\* <<>>), in the set published when it returned; whether nets is that set, and
\* whether that set is the one its fetch attempt found.
Ended(t, how, nets, published) ==
    [conn |-> IsConn(t), how |-> how,
     result |-> IsConn(t) /\ InRanges(nets, ip[t]),
     inLoaded |-> inLoaded[t],
     covered |-> covered[t] \/ Covers(published, ip[t]),
     inRet |-> Covers(nets, ip[t]),
     inPub |-> Covers(published, ip[t]),
     retIsPub |-> nets = published,
     kept |-> tries[t] > 0 /\ before[t] = Stored(published),
     updCalls |-> updCalls[t], tries |-> tries[t]]

Start ==
    /\ ips = Nil
    /\ mutex = FALSE
    /\ refresh = 0
    /\ now = Hour + 1
    /\ alive = TRUE
    /\ panicked = FALSE
    /\ pc = [t \in Tasks |-> "idle"]
    /\ ip = [t \in Tasks |-> NoIP]
    /\ ipv4 = [t \in Tasks |-> <<>>]
    /\ inLoaded = [t \in Tasks |-> FALSE]
    /\ covered = [t \in Tasks |-> FALSE]
    /\ updCalls = [t \in Tasks |-> 0]
    /\ tries = [t \in Tasks |-> 0]
    /\ before = [t \in Tasks |-> Nil]
    /\ waited = [t \in Tasks |-> 0]
    /\ early = [t \in Tasks |-> FALSE]
    /\ lastAt = 0
    /\ sinceStart = 0
    /\ ev = [conn |-> FALSE, how |-> "none", result |-> FALSE, inLoaded |-> FALSE,
             covered |-> FALSE, inRet |-> FALSE, inPub |-> FALSE, retIsPub |-> FALSE,
             kept |-> FALSE, updCalls |-> 0, tries |-> 0]

\* checkIP called on its own, as the tests call it: no server, no caller to resume.
Bare ==
    /\ filterIPs = FALSE
    /\ pullCA = NoPool
    /\ cert = <<>>
    /\ server = NoServer
    /\ frame = [t \in Tasks |-> NoFrame]
    /\ out = NoOut

\* Package cforigin before the first handshake: the zero values of its variables.
StartCF ==
    /\ cfIps = <<>>
    /\ cfMutex = FALSE
    /\ cfRefresh = 0
    /\ cfNow = Hour + 1
    /\ cfAlive = TRUE
    /\ cfPc = [t \in Tasks |-> "idle"]
    /\ cfIp = [t \in Tasks |-> NoIP]
    /\ cfV4 = [t \in Tasks |-> <<>>]
    /\ cfNew = [t \in Tasks |-> <<>>]
    /\ cfOut = [how |-> "none", err |-> NoErr, raced |-> FALSE]

\* The zero updater, and no half of updateRecords run yet.
NoUpdater == [a |-> "", aaaa |-> "", ipv4 |-> "", ipv6 |-> ""]

NoHalf ==
    [type |-> "", looked |-> FALSE, ip |-> "", differs |-> FALSE, called |-> FALSE,
     e |-> NoErr, was |-> "", is |-> ""]

\* The record IDs of a zone, and the addresses a host can have.
IDs == {"a1", "a2", "q1", "t1"}

IPv4s == {"1.1", "1.2"}

IPv6s == {"::1", "::2"}

\* Package dyndns before SyncDNS is called.
StartDyn ==
    /\ dynPc = "new"
    /\ up = NoUpdater
    /\ zone = [id \in IDs |-> ""]
    /\ pub = [A |-> "1.1", AAAA |-> "::1"]
    /\ dynErr = NoErr
    /\ dynLast = NoHalf

\* No request served yet.
NoRequest == [TLS |-> FALSE, ServerName |-> <<>>, Host |-> <<>>]

StartMux ==
    /\ muxRequest = NoRequest
    /\ muxStatus = 0
    /\ muxServed = FALSE

\* s.record is "": no record remembered.
NoRecord == 0

\* The solver that NewDNS01SolverWithClient returns, on a zone without TXT records.
StartAcme ==
    /\ acmeRecord = NoRecord
    /\ acmeZone = {}
    /\ acmeNext = 1
    /\ acmeKept = NoRecord
    /\ acmeLast = [op |-> "none", err |-> NoErr, deleted |-> NoRecord]

\* The upstream servers of the resolver.
addrs ==
    << "1.1.1.1:853", "[2606:4700:4700::1111]:853",
       "1.0.0.1:853", "[2606:4700:4700::1001]:853" >>

\* The resolver that NewTLSResolver returns: "index := 0", no Dial called yet.
StartDns ==
    /\ index = 0
    /\ dialPc = [t \in Tasks |-> "idle"]
    /\ dialI = [t \in Tasks |-> 0]
    /\ dialAt = [t \in Tasks |-> 0]
    /\ dialTmp = [t \in Tasks |-> 0]
    /\ dialLast = [task |-> 0, err |-> NoErr, attempts |-> 0, addr |-> ""]

\* The other packages, as they are when the program starts.
Apart == StartCF /\ StartDyn /\ StartMux /\ StartAcme /\ StartDns

Init == Start /\ timing = FALSE /\ Bare /\ Apart

InitTimed == Start /\ timing = TRUE /\ Bare /\ Apart

\* ------------------------------------------------------------ operations
InUpdate(t) == pc[t] \in {"lock", "locked", "fetch4", "fetch6"}

InSection(t) == pc[t] \in {"locked", "fetch4", "fetch6"}

\* The task's call is over: its locals are gone.
Rest(t) ==
    /\ pc' = [pc EXCEPT ![t] = "idle"]
    /\ ip' = [ip EXCEPT ![t] = NoIP]
    /\ ipv4' = [ipv4 EXCEPT ![t] = <<>>]
    /\ inLoaded' = [inLoaded EXCEPT ![t] = FALSE]
    /\ updCalls' = [updCalls EXCEPT ![t] = 0]
    /\ tries' = [tries EXCEPT ![t] = 0]
    /\ before' = [before EXCEPT ![t] = Nil]
    /\ waited' = [waited EXCEPT ![t] = 0]
    /\ early' = [early EXCEPT ![t] = FALSE]
    /\ frame' = [frame EXCEPT ![t] = NoFrame]

\* checkIP(addr), up to its call of updateIPs: the type switch, ips.Load() and the
\* first range loop.  fr is the caller, resumed at once when the loop returns true.
checkIP(t, addr, fr) ==
    /\ LET x    == AddrIP(addr)
           here == Covers(ips.v, x)
       IN  IF InRanges(ips.v, x)
           THEN /\ ev' = [conn |-> TRUE, how |-> "hit", result |-> TRUE,
                          inLoaded |-> here, covered |-> here, inRet |-> FALSE,
                          inPub |-> here, retIsPub |-> FALSE, kept |-> FALSE,
                          updCalls |-> 0, tries |-> 0]
                /\ out' = Resume(fr, TRUE)
                /\ UNCHANGED <<pc, ip, inLoaded, covered, updCalls, waited, early, frame>>
           ELSE /\ pc' = [pc EXCEPT ![t] = "lock"]
                /\ ip' = [ip EXCEPT ![t] = x]
                /\ inLoaded' = [inLoaded EXCEPT ![t] = here]
                /\ covered' = [covered EXCEPT ![t] = here]
                /\ updCalls' = [updCalls EXCEPT ![t] = @ + 1]
                /\ early' = [early EXCEPT ![t] = timing /\ lastAt # 0 /\ sinceStart <= Hour]
                /\ frame' = [frame EXCEPT ![t] = fr]
                /\ UNCHANGED <<waited, ev, out>>
    /\ UNCHANGED <<ips, mutex, refresh, now, alive, panicked, ipv4, tries, before,
                   lastAt, sinceStart>>

\* A checkIP that reads the published set under the refresh lock.
CheckIPUnderLock(t) ==
    /\ alive
    /\ UNCHANGED setup
    /\ IsConn(t)
    /\ pc[t] = "idle"
    /\ ~mutex
    /\ \E addr \in RemoteAddrs : checkIP(t, addr, NoFrame)

\* A call of checkIP for a connection's remote address.
CheckIP(t) ==
    /\ alive
    /\ UNCHANGED setup
    /\ IsConn(t)
    /\ pc[t] = "idle"
    /\ \E addr \in RemoteAddrs : checkIP(t, addr, NoFrame)

\* A loop without "break": the last certificate that the hello supports.
RECURSIVE FindNoBreak(_, _, _)
FindNoBreak(certs, info, i) ==
    IF i > Len(certs) THEN NoCert
    ELSE LET later == FindNoBreak(certs, info, i + 1)
         IN  IF later # NoCert THEN later
             ELSE IF SupportsCertificate(info, certs[i]) THEN i
             ELSE NoCert

\* The loop "for i := range cert": the first certificate, from index i on, that
\* the hello supports.
RECURSIVE Find(_, _, _)
Find(certs, info, i) ==
    IF i > Len(certs) THEN NoCert
    ELSE IF SupportsCertificate(info, certs[i]) THEN i
    ELSE Find(certs, info, i + 1)

\* GetCertificate returns without having called checkIP.
Direct(found, err, info) ==
    /\ out' = Answer(found, err, info, FALSE)
    /\ UNCHANGED <<ips, mutex, refresh, now, alive, panicked, pc, ip, ipv4, inLoaded,
                   covered, updCalls, tries, before, waited, early, lastAt, sinceStart,
                   ev, frame>>

\* A callback without "if info.ServerName == \"\"".
GetCertificateNoSNI(t) ==
    /\ alive
    /\ UNCHANGED setup
    /\ IsConn(t)
    /\ pc[t] = "idle"
    /\ \E info \in Hellos :
         LET found == Find(server.GetCertificate.cert, info, 1)
         IN  IF found = NoCert
             THEN Direct(NoCert, errMismatchedServerName, info)
             ELSE IF server.GetCertificate.filterIPs
             THEN checkIP(t, info.addr,
                          [kind |-> "hello", found |-> found,
                           ServerName |-> info.ServerName, algs |-> info.algs])
             ELSE Direct(found, NoErr, info)

\* A callback that validates the client IP before it looks for a certificate.
GetCertificateIPFirst(t) ==
    /\ alive
    /\ UNCHANGED setup
    /\ IsConn(t)
    /\ pc[t] = "idle"
    /\ \E info \in Hellos :
         LET found == Find(server.GetCertificate.cert, info, 1)
         IN  IF info.ServerName = ""
             THEN Direct(NoCert, errMissingServerName, info)
             ELSE IF server.GetCertificate.filterIPs
             THEN checkIP(t, info.addr,
                          [kind |-> "hello", found |-> found,
                           ServerName |-> info.ServerName, algs |-> info.algs])
             ELSE IF found = NoCert
             THEN Direct(NoCert, errMismatchedServerName, info)
             ELSE Direct(found, NoErr, info)

\* config.GetCertificate, called by the TLS handshake of a connection; cert and
\* filterIPs are what the closure took from NewServerWithCerts.
GetCertificate(t) ==
    /\ alive
    /\ UNCHANGED setup
    /\ IsConn(t)
    /\ pc[t] = "idle"
    /\ \E info \in Hellos :
         LET found == Find(server.GetCertificate.cert, info, 1)
         IN  IF info.ServerName = ""
             THEN Direct(NoCert, errMissingServerName, info)
             ELSE IF found = NoCert
             THEN Direct(NoCert, errMismatchedServerName, info)
             ELSE IF server.GetCertificate.filterIPs
             THEN checkIP(t, info.addr,
                          [kind |-> "hello", found |-> found,
                           ServerName |-> info.ServerName, algs |-> info.algs])
             ELSE Direct(found, NoErr, info)

\* What the steps on an accepted connection leave alone.
cache == <<ips, mutex, refresh, now, alive, panicked, pc, ip, ipv4, inLoaded,
           covered, updCalls, tries, before, waited, early, lastAt, sinceStart,
           ev, frame>>

\* listener.Accept: the inner Accept fails, or checkIP is asked about c.RemoteAddr().
Accept(t) ==
    /\ alive
    /\ UNCHANGED setup
    /\ IsConn(t)
    /\ pc[t] = "idle"
    /\ \/ /\ out' = Conn("nil", "accept failed", FALSE, FALSE)
          /\ UNCHANGED cache
       \/ \E addr \in RemoteAddrs : checkIP(t, addr, [kind |-> "accept"])

\* A conn without a Read of its own: the Read of the net.Conn inside it.
ReadOfEmbedded ==
    /\ alive
    /\ UNCHANGED setup
    /\ out.kind = "conn" /\ out.value # "nil"
    /\ out' = IF out.closed THEN [out EXCEPT !.io = errClosed]
              ELSE [out EXCEPT !.io = NoErr, !.rd = TRUE]
    /\ UNCHANGED cache

\* Read on the value Accept returned: conn.Read, or the Read of c.
Read ==
    /\ alive
    /\ UNCHANGED setup
    /\ out.kind = "conn" /\ out.value # "nil"
    /\ out' = IF out.value = "conn{c}" THEN [out EXCEPT !.io = errNotCloudflare]
              ELSE IF out.closed THEN [out EXCEPT !.io = errClosed]
              ELSE [out EXCEPT !.io = NoErr, !.rd = TRUE]
    /\ UNCHANGED cache

\* Write on the value Accept returned: conn.Write, or the Write of c.
Write ==
    /\ alive
    /\ UNCHANGED setup
    /\ out.kind = "conn" /\ out.value # "nil"
    /\ out' = IF out.value = "conn{c}" THEN [out EXCEPT !.io = errNotCloudflare]
              ELSE IF out.closed THEN [out EXCEPT !.io = errClosed]
              ELSE [out EXCEPT !.io = NoErr, !.wr = TRUE]
    /\ UNCHANGED cache

\* Close on the value Accept returned: conn.Close returns nil and does nothing,
\* the Close of c closes c.
Close ==
    /\ alive
    /\ UNCHANGED setup
    /\ out.kind = "conn" /\ out.value # "nil"
    /\ out' = IF out.value = "conn{c}" THEN [out EXCEPT !.shut = TRUE]
              ELSE [out EXCEPT !.shut = TRUE, !.closed = TRUE]
    /\ UNCHANGED cache

\* Listen: "go updateIPs()", a call whose result nobody reads.
Listen(t) ==
    /\ alive
    /\ UNCHANGED setup
    /\ ~IsConn(t)
    /\ pc[t] = "idle"
    /\ pc' = [pc EXCEPT ![t] = "lock"]
    /\ updCalls' = [updCalls EXCEPT ![t] = @ + 1]
    /\ early' = [early EXCEPT ![t] = timing /\ lastAt # 0 /\ sinceStart <= Hour]
    /\ UNCHANGED <<ips, mutex, refresh, now, alive, panicked, ip, ipv4, inLoaded,
                   covered, tries, before, waited, lastAt, sinceStart, ev, frame, out>>

\* A Lock that does not wait.
LockWithoutWaiting(t) ==
    /\ alive
    /\ UNCHANGED setup
    /\ pc[t] = "lock"
    /\ mutex' = TRUE
    /\ pc' = [pc EXCEPT ![t] = "locked"]
    /\ UNCHANGED <<ips, refresh, now, alive, panicked, ip, ipv4, inLoaded, covered,
                   updCalls, tries, before, waited, early, lastAt, sinceStart, ev, frame, out>>

\* updateIPs: mutex.Lock()
Lock(t) ==
    /\ alive
    /\ UNCHANGED setup
    /\ pc[t] = "lock"
    /\ ~mutex
    /\ mutex' = TRUE
    /\ pc' = [pc EXCEPT ![t] = "locked"]
    /\ UNCHANGED <<ips, refresh, now, alive, panicked, ip, ipv4, inLoaded, covered,
                   updCalls, tries, before, waited, early, lastAt, sinceStart, ev, frame, out>>

\* time.Since(refresh) > time.Hour
Due == now - refresh > Hour

\* updateIPs returns nets (the deferred mutex.Unlock() runs) and, in checkIP, the
\* second range loop decides the result; published is what ips holds by then.
Returns(t, nets, how, published) ==
    /\ mutex' = FALSE
    /\ ev' = Ended(t, how, nets, published)
    /\ out' = Resume(frame[t], IsConn(t) /\ InRanges(nets, ip[t]))
    /\ covered' = [u \in Tasks |->
                     IF u = t THEN FALSE
                     ELSE covered[u] \/ (InUpdate(u) /\ Covers(published, ip[u]))]
    /\ Rest(t)

\* A throttled branch that returns nil instead of the published set.
ThrottledReturnsNil(t) ==
    /\ alive
    /\ UNCHANGED setup
    /\ pc[t] = "locked"
    /\ ~Due
    /\ Returns(t, <<>>, "throttled", ips.v)
    /\ UNCHANGED <<ips, refresh, now, alive, panicked, lastAt, sinceStart>>

\* updateIPs, the branch taken within the hour: return ips.Load().([]net.IPNet).
\* The assertion panics on the nil interface; the deferred unlock still runs.
Throttled(t) ==
    /\ alive
    /\ UNCHANGED setup
    /\ pc[t] = "locked"
    /\ ~Due
    /\ IF ips.present
       THEN /\ Returns(t, ips.v, "throttled", ips.v)
            /\ UNCHANGED <<alive, panicked>>
       ELSE /\ mutex' = FALSE
            /\ panicked' = TRUE
            /\ alive' = FALSE
            /\ ev' = Ended(t, "panic", <<>>, ips.v)
            /\ UNCHANGED <<pc, ip, ipv4, inLoaded, covered, updCalls, tries, before,
                           waited, early, frame, out>>
    /\ UNCHANGED <<ips, refresh, now, lastAt, sinceStart>>

\* An attempt that forgets "refresh = time.Now()".
StartAttemptNoStamp(t) ==
    /\ alive
    /\ UNCHANGED setup
    /\ pc[t] = "locked"
    /\ Due
    /\ pc' = [pc EXCEPT ![t] = "fetch4"]
    /\ tries' = [tries EXCEPT ![t] = @ + 1]
    /\ before' = [before EXCEPT ![t] = ips]
    /\ lastAt' = now
    /\ sinceStart' = waited[t]
    /\ waited' = [waited EXCEPT ![t] = 0]
    /\ UNCHANGED <<ips, mutex, refresh, now, alive, panicked, ip, ipv4, inLoaded,
                   covered, updCalls, early, ev, frame, out>>

\* updateIPs, the branch taken after the hour: refresh = time.Now(), then fetch.
StartAttempt(t) ==
    /\ alive
    /\ UNCHANGED setup
    /\ pc[t] = "locked"
    /\ Due
    /\ refresh' = now
    /\ pc' = [pc EXCEPT ![t] = "fetch4"]
    /\ tries' = [tries EXCEPT ![t] = @ + 1]
    /\ before' = [before EXCEPT ![t] = ips]
    /\ lastAt' = now
    /\ sinceStart' = waited[t]
    /\ waited' = [waited EXCEPT ![t] = 0]
    /\ UNCHANGED <<ips, mutex, now, alive, panicked, ip, ipv4, inLoaded, covered,
                   updCalls, early, ev, frame, out>>

\* A failure after bootstrap that returns without unlocking the mutex.
FailedKeepsLock(t, how) ==
    IF ~ips.present
    THEN /\ alive' = FALSE
         /\ ev' = Ended(t, "fatal", <<>>, ips.v)
         /\ UNCHANGED <<ips, mutex, pc, ip, ipv4, inLoaded, covered, updCalls, tries,
                        before, waited, early, frame, out>>
    ELSE /\ ev' = Ended(t, how, <<>>, ips.v)
         /\ out' = Resume(frame[t], FALSE)
         /\ Rest(t)
         /\ UNCHANGED <<ips, mutex, alive, covered>>

\* A failure that clears the published set.
FailedStoresNil(t, how) ==
    IF ~ips.present
    THEN /\ alive' = FALSE
         /\ ev' = Ended(t, "fatal", <<>>, ips.v)
         /\ UNCHANGED <<ips, mutex, pc, ip, ipv4, inLoaded, covered, updCalls, tries,
                        before, waited, early, frame, out>>
    ELSE /\ Returns(t, <<>>, how, <<>>)
         /\ ips' = Nil
         /\ UNCHANGED alive

\* A failure that is never fatal.
FailedNeverFatal(t, how) ==
    /\ Returns(t, <<>>, how, ips.v)
    /\ UNCHANGED <<ips, alive>>

\* updateIPs, "if err != nil": fatal when nothing was ever stored (os.Exit runs no
\* deferred call), else log and return nil.
Failed(t, how) ==
    IF ~ips.present
    THEN /\ alive' = FALSE
         /\ ev' = Ended(t, "fatal", <<>>, ips.v)
         /\ UNCHANGED <<ips, mutex, pc, ip, ipv4, inLoaded, covered, updCalls, tries,
                        before, waited, early, frame, out>>
    ELSE /\ Returns(t, <<>>, how, ips.v)
         /\ UNCHANGED <<ips, alive>>

\* An IPv4 fetch that publishes its list at once.
FetchV4StoresHalf(t) ==
    /\ alive
    /\ UNCHANGED setup
    /\ pc[t] = "fetch4"
    /\ \E resp \in Responses :
         LET r == loadIPs(resp)
         IN  IF r.err
             THEN Failed(t, "failedV4")
             ELSE /\ ipv4' = [ipv4 EXCEPT ![t] = r.ips]
                  /\ ips' = Stored(r.ips)
                  /\ pc' = [pc EXCEPT ![t] = "fetch6"]
                  /\ UNCHANGED <<mutex, alive, ip, inLoaded, covered, updCalls,
                                 tries, before, waited, early, ev, frame, out>>
    /\ UNCHANGED <<refresh, now, panicked, lastAt, sinceStart>>

\* ipv4, err := loadIPs(".../ips-v4")
FetchV4(t) ==
    /\ alive
    /\ UNCHANGED setup
    /\ pc[t] = "fetch4"
    /\ \E resp \in Responses :
         LET r == loadIPs(resp)
         IN  IF r.err
             THEN Failed(t, "failedV4")
             ELSE /\ ipv4' = [ipv4 EXCEPT ![t] = r.ips]
                  /\ pc' = [pc EXCEPT ![t] = "fetch6"]
                  /\ UNCHANGED <<ips, mutex, alive, ip, inLoaded, covered, updCalls,
                                 tries, before, waited, early, ev, frame, out>>
    /\ UNCHANGED <<refresh, now, panicked, lastAt, sinceStart>>

\* An IPv6 fetch that returns the new set without storing it.
FetchV6ReturnsUnstored(t) ==
    /\ alive
    /\ UNCHANGED setup
    /\ pc[t] = "fetch6"
    /\ \E resp \in Responses :
         LET r == loadIPs(resp)
         IN  IF r.err
             THEN Failed(t, "failedV6")
             ELSE /\ Returns(t, ipv4[t] \o r.ips, "published", ips.v)
                  /\ UNCHANGED <<ips, alive>>
    /\ UNCHANGED <<refresh, now, panicked, lastAt, sinceStart>>

\* An IPv6 fetch that appends its list to the published set.
FetchV6AppendsToPublished(t) ==
    /\ alive
    /\ UNCHANGED setup
    /\ pc[t] = "fetch6"
    /\ \E resp \in Responses :
         LET r == loadIPs(resp)
         IN  IF r.err
             THEN Failed(t, "failedV6")
             ELSE LET new == ips.v \o r.ips
                  IN  /\ ips' = Stored(new)
                      /\ Returns(t, new, "published", new)
                      /\ UNCHANGED alive
    /\ UNCHANGED <<refresh, now, panicked, lastAt, sinceStart>>

\* ipv6, err := loadIPs(".../ips-v6"); ip := append(ipv4, ipv6...); ips.Store(ip)
FetchV6(t) ==
    /\ alive
    /\ UNCHANGED setup
    /\ pc[t] = "fetch6"
    /\ \E resp \in Responses :
         LET r == loadIPs(resp)
         IN  IF r.err
             THEN Failed(t, "failedV6")
             ELSE LET new == ipv4[t] \o r.ips
                  IN  /\ ips' = Stored(new)
                      /\ Returns(t, new, "published", new)
                      /\ UNCHANGED alive
    /\ UNCHANGED <<refresh, now, panicked, lastAt, sinceStart>>

\* Time passes.
Later(d) == IF d < Hour + 1 THEN d + 1 ELSE d

Tick ==
    /\ alive
    /\ UNCHANGED setup
    /\ now < MaxTime
    /\ now' = now + 1
    /\ waited' = [t \in Tasks |->
                    IF timing /\ pc[t] \in {"lock", "locked"} THEN Later(waited[t]) ELSE 0]
    /\ sinceStart' = IF timing /\ lastAt # 0 THEN Later(sinceStart) ELSE 0
    /\ UNCHANGED <<ips, mutex, refresh, alive, panicked, pc, ip, ipv4, inLoaded,
                   covered, updCalls, tries, before, early, lastAt, ev, frame, out>>

Next ==
    \/ \E t \in Tasks : CheckIP(t)
    \/ \E t \in Tasks : Listen(t)
    \/ \E t \in Tasks : Lock(t)
    \/ \E t \in Tasks : Throttled(t)
    \/ \E t \in Tasks : StartAttempt(t)
    \/ \E t \in Tasks : FetchV4(t)
    \/ \E t \in Tasks : FetchV6(t)
    \/ Tick

Spec == Init /\ [][Next]_vars

\* The same program with its scheduling: a task that can take its next step inside
\* updateIPs takes it, a fetch that was started ends (loadIPs' context times out
\* after a second), and a task that waits for the mutex gets it when it is
\* released again and again (sync.Mutex hands over to a starving waiter).
Fairness ==
    \A t \in Tasks :
        /\ SF_vars(Lock(t))
        /\ WF_vars(Throttled(t))
        /\ WF_vars(StartAttempt(t))
        /\ WF_vars(FetchV4(t))
        /\ WF_vars(FetchV6(t))

SpecLive == Init /\ [][Next]_vars /\ Fairness

\* The same program, with the stopwatches running.
SpecTimed == InitTimed /\ [][Next]_vars

\* The server of NewServerWithCerts: every call of checkIP comes from GetCertificate.
InitTLS ==
    /\ Start
    /\ timing = FALSE
    /\ filterIPs \in BOOLEAN
    /\ pullCA \in Pools
    /\ cert \in CertLists
    /\ server = NewServerWithCerts(filterIPs, pullCA, cert)
    /\ frame = [t \in Tasks |-> NoFrame]
    /\ out = NoOut
    /\ Apart

NextTLS ==
    \/ \E t \in Tasks : GetCertificate(t)
    \/ \E t \in Tasks : Lock(t)
    \/ \E t \in Tasks : Throttled(t)
    \/ \E t \in Tasks : StartAttempt(t)
    \/ \E t \in Tasks : FetchV4(t)
    \/ \E t \in Tasks : FetchV6(t)
    \/ Tick

SpecTLS == InitTLS /\ [][NextTLS]_vars

\* The listener of Listen: every call of checkIP comes from Accept, and the
\* server reads, writes and closes what Accept returns.
NextListener ==
    \/ \E t \in Tasks : Accept(t)
    \/ \E t \in Tasks : Listen(t)
    \/ \E t \in Tasks : Lock(t)
    \/ \E t \in Tasks : Throttled(t)
    \/ \E t \in Tasks : StartAttempt(t)
    \/ \E t \in Tasks : FetchV4(t)
    \/ \E t \in Tasks : FetchV6(t)
    \/ Tick
    \/ Read
    \/ Write
    \/ Close

SpecListener == Init /\ [][NextListener]_vars

\* -------------------------------------------------------- package cforigin
\* What no step of package cforigin changes.
exceptCF == <<origin, dyndns, mux, acmecf, dns>>

\* time.Since(refresh) > time.Hour
cfDue == cfNow - cfRefresh > Hour

\* Another task is at "ips = append(ipv4, ipv6...)" while t is at "range ips".
Racing(t) == \E u \in Tasks \ {t} : cfPc[u] = "assign"

\* What a range loop of checkIP can come to: whether ip is in a network of ips, or,
\* when the read of ips races with the assignment, anything (the three words of
\* the slice are read while they are written): found, not found, or a fault.
Loop(t) ==
    IF Racing(t) THEN {"in", "out", "fault"}
    ELSE IF InRanges(cfIps, cfIp[t]) THEN {"in"} ELSE {"out"}

\* checkIP returns err, its locals are gone.
cfReturn(t, how, err) ==
    /\ cfOut' = [how |-> how, err |-> err, raced |-> cfOut.raced]
    /\ cfPc' = [cfPc EXCEPT ![t] = "idle"]
    /\ cfIp' = [cfIp EXCEPT ![t] = NoIP]
    /\ cfV4' = [cfV4 EXCEPT ![t] = <<>>]
    /\ cfNew' = [cfNew EXCEPT ![t] = <<>>]

\* The outcome r of a range loop that raced, or not, with the assignment.
cfLooped(t, r, how) ==
    IF r = "fault"
    THEN /\ cfAlive' = FALSE
         /\ cfOut' = [how |-> "fault", err |-> NoErr, raced |-> TRUE]
         /\ UNCHANGED <<cfPc, cfIp, cfV4, cfNew>>
    ELSE /\ cfOut' = [how |-> how,
                      err |-> IF r = "in" THEN NoErr ELSE errNotCloudflare,
                      raced |-> Racing(t)]
         /\ cfPc' = [cfPc EXCEPT ![t] = "idle"]
         /\ cfIp' = [cfIp EXCEPT ![t] = NoIP]
         /\ cfV4' = [cfV4 EXCEPT ![t] = <<>>]
         /\ cfNew' = [cfNew EXCEPT ![t] = <<>>]
         /\ UNCHANGED cfAlive

\* config.GetCertificate = checkIP, called by a handshake: the type switch.
cfCheckIP(t) ==
    /\ cfAlive
    /\ UNCHANGED exceptCF
    /\ cfPc[t] = "idle"
    /\ \E addr \in RemoteAddrs : cfIp' = [cfIp EXCEPT ![t] = AddrIP(addr)]
    /\ cfPc' = [cfPc EXCEPT ![t] = "loop1"]
    /\ UNCHANGED <<cfIps, cfMutex, cfRefresh, cfNow, cfAlive, cfV4, cfNew, cfOut>>

\* checkIP: the first "for _, ipnet := range ips", then "if updateIPs()".
cfFirstLoop(t) ==
    /\ cfAlive
    /\ UNCHANGED exceptCF
    /\ cfPc[t] = "loop1"
    /\ \E r \in Loop(t) :
         IF r = "out"
         THEN /\ cfPc' = [cfPc EXCEPT ![t] = "lock"]
              /\ cfOut' = [cfOut EXCEPT !.raced = Racing(t)]
              /\ UNCHANGED <<cfAlive, cfIp, cfV4, cfNew>>
         ELSE cfLooped(t, r, "hit")
    /\ UNCHANGED <<cfIps, cfMutex, cfRefresh, cfNow>>

\* updateIPs: mutex.Lock()
cfLock(t) ==
    /\ cfAlive
    /\ UNCHANGED exceptCF
    /\ cfPc[t] = "lock"
    /\ ~cfMutex
    /\ cfMutex' = TRUE
    /\ cfPc' = [cfPc EXCEPT ![t] = "locked"]
    /\ UNCHANGED <<cfIps, cfRefresh, cfNow, cfAlive, cfIp, cfV4, cfNew, cfOut>>

\* updateIPs within the hour: "return false", and checkIP returns the error.
cfThrottled(t) ==
    /\ cfAlive
    /\ UNCHANGED exceptCF
    /\ cfPc[t] = "locked"
    /\ ~cfDue
    /\ cfMutex' = FALSE
    /\ cfReturn(t, "throttled", errNotCloudflare)
    /\ UNCHANGED <<cfIps, cfRefresh, cfNow, cfAlive>>

\* updateIPs after the hour: refresh = time.Now()
cfStartAttempt(t) ==
    /\ cfAlive
    /\ UNCHANGED exceptCF
    /\ cfPc[t] = "locked"
    /\ cfDue
    /\ cfRefresh' = cfNow
    /\ cfPc' = [cfPc EXCEPT ![t] = "fetch4"]
    /\ UNCHANGED <<cfIps, cfMutex, cfNow, cfAlive, cfIp, cfV4, cfNew, cfOut>>

\* updateIPs, "if err != nil": fatal when ips is nil, else "return false", and
\* checkIP returns the error.
cfFailed(t) ==
    IF cfIps = <<>>
    THEN /\ cfAlive' = FALSE
         /\ cfOut' = [how |-> "fatal", err |-> NoErr, raced |-> cfOut.raced]
         /\ UNCHANGED <<cfMutex, cfPc, cfIp, cfV4, cfNew>>
    ELSE /\ cfMutex' = FALSE
         /\ cfReturn(t, "failed", errNotCloudflare)
         /\ UNCHANGED cfAlive

\* ipv4, err := loadIPs(".../ips-v4")
cfFetchV4(t) ==
    /\ cfAlive
    /\ UNCHANGED exceptCF
    /\ cfPc[t] = "fetch4"
    /\ \E resp \in Responses :
         LET r == loadIPs(resp)
         IN  IF r.err
             THEN cfFailed(t)
             ELSE /\ cfV4' = [cfV4 EXCEPT ![t] = r.ips]
                  /\ cfPc' = [cfPc EXCEPT ![t] = "fetch6"]
                  /\ UNCHANGED <<cfMutex, cfAlive, cfIp, cfNew, cfOut>>
    /\ UNCHANGED <<cfIps, cfRefresh, cfNow>>

\* ipv6, err := loadIPs(".../ips-v6"), and the operand append(ipv4, ipv6...)
cfFetchV6(t) ==
    /\ cfAlive
    /\ UNCHANGED exceptCF
    /\ cfPc[t] = "fetch6"
    /\ \E resp \in Responses :
         LET r == loadIPs(resp)
         IN  IF r.err
             THEN cfFailed(t)
             ELSE /\ cfNew' = [cfNew EXCEPT ![t] = cfV4[t] \o r.ips]
                  /\ cfPc' = [cfPc EXCEPT ![t] = "assign"]
                  /\ UNCHANGED <<cfMutex, cfAlive, cfIp, cfV4, cfOut>>
    /\ UNCHANGED <<cfIps, cfRefresh, cfNow>>

\* updateIPs: "ips = append(ipv4, ipv6...); return true" (the deferred unlock runs).
cfAssign(t) ==
    /\ cfAlive
    /\ UNCHANGED exceptCF
    /\ cfPc[t] = "assign"
    /\ cfIps' = cfNew[t]
    /\ cfMutex' = FALSE
    /\ cfPc' = [cfPc EXCEPT ![t] = "loop2"]
    /\ UNCHANGED <<cfRefresh, cfNow, cfAlive, cfIp, cfV4, cfNew, cfOut>>

\* checkIP: the second "for _, ipnet := range ips", and the return.
cfSecondLoop(t) ==
    /\ cfAlive
    /\ UNCHANGED exceptCF
    /\ cfPc[t] = "loop2"
    /\ \E r \in Loop(t) : cfLooped(t, r, "refreshed")
    /\ UNCHANGED <<cfIps, cfMutex, cfRefresh, cfNow>>

\* Time passes.
cfTick ==
    /\ cfAlive
    /\ UNCHANGED exceptCF
    /\ cfNow < MaxTime
    /\ cfNow' = cfNow + 1
    /\ UNCHANGED <<cfIps, cfMutex, cfRefresh, cfAlive, cfPc, cfIp, cfV4, cfNew, cfOut>>

NextCF ==
    \/ \E t \in Tasks : cfCheckIP(t)
    \/ \E t \in Tasks : cfFirstLoop(t)
    \/ \E t \in Tasks : cfLock(t)
    \/ \E t \in Tasks : cfThrottled(t)
    \/ \E t \in Tasks : cfStartAttempt(t)
    \/ \E t \in Tasks : cfFetchV4(t)
    \/ \E t \in Tasks : cfFetchV6(t)
    \/ \E t \in Tasks : cfAssign(t)
    \/ \E t \in Tasks : cfSecondLoop(t)
    \/ cfTick

\* Package cforigin: handshakes of concurrent connections, each calling checkIP.
SpecCF == Init /\ [][NextCF]_vars

\* ---------------------------------------------------------- package dyndns
\* What no step of package dyndns changes.
exceptDyn == <<origin, cforigin, mux, acmecf, dns>>

\* The records the API can list for the domain: a TXT record, two A records and
\* an AAAA record.
RecTXT == [Type |-> "TXT", ID |-> "t1", Content |-> "x"]

RecA1 == [Type |-> "A", ID |-> "a1", Content |-> "1.1"]

RecA2 == [Type |-> "A", ID |-> "a2", Content |-> "1.2"]

RecQ1 == [Type |-> "AAAA", ID |-> "q1", Content |-> "::2"]

Listings ==
    { <<>>, <<RecTXT>>, <<RecA2>>, <<RecQ1>>, <<RecTXT, RecA1, RecQ1>>,
      <<RecA1, RecA2>>, <<RecQ1, RecA2>> }

\* loadRecords, the loop "for i := range recs" and the test after it.
RECURSIVE loadRecords(_, _)
loadRecords(recs, u) ==
    IF recs = <<>>
    THEN IF u.a = "" /\ u.aaaa = ""
         THEN [err |-> "No A/AAAA records found", up |-> u]
         ELSE [err |-> NoErr, up |-> u]
    ELSE LET rec == Head(recs)
         IN  IF rec.Type = "A"
             THEN IF u.a # ""
                  THEN [err |-> "Multiple A records found", up |-> u]
                  ELSE loadRecords(Tail(recs), [u EXCEPT !.a = rec.ID, !.ipv4 = rec.Content])
             ELSE IF rec.Type = "AAAA"
             THEN IF u.aaaa # ""
                  THEN [err |-> "Multiple AAAA records found", up |-> u]
                  ELSE loadRecords(Tail(recs), [u EXCEPT !.aaaa = rec.ID, !.ipv6 = rec.Content])
             ELSE loadRecords(Tail(recs), u)

\* What a GET of /cdn-cgi/trace can come back with when the public IP is p: no
\* response, a status that is not 200, or lines "k=v", whose reading may fail.
Traces(p) ==
    { [netErr |-> TRUE, status |-> 200, body |-> <<>>, scanErr |-> FALSE],
      [netErr |-> FALSE, status |-> 503, body |-> <<>>, scanErr |-> FALSE],
      [netErr |-> FALSE, status |-> 200, scanErr |-> FALSE,
       body |-> << [k |-> "h", v |-> "x"], [k |-> "ip", v |-> p], [k |-> "ip", v |-> "0.0"] >>],
      [netErr |-> FALSE, status |-> 200, scanErr |-> FALSE,
       body |-> << [k |-> "h", v |-> "x"] >>],
      [netErr |-> FALSE, status |-> 200, scanErr |-> TRUE, body |-> <<>>] }

\* tryGetIP, the scanner loop: the rest of the first line that begins with "ip=".
RECURSIVE ScanTrace(_, _)
ScanTrace(body, scanErr) ==
    IF body = <<>>
    THEN IF scanErr THEN [ip |-> "", err |-> "scan"]
         ELSE [ip |-> "", err |-> "parse error: ip not found"]
    ELSE IF Head(body).k = "ip" THEN [ip |-> Head(body).v, err |-> NoErr]
    ELSE ScanTrace(Tail(body), scanErr)

tryGetIP(resp) ==
    IF resp.netErr THEN [ip |-> "", err |-> "net"]
    ELSE IF resp.status # 200 THEN [ip |-> "", err |-> "status"]
    ELSE ScanTrace(resp.body, resp.scanErr)

\* publicIP: the secondary server is asked when the primary failed.
publicIP(primary, secondary) ==
    IF tryGetIP(primary).err # NoErr THEN tryGetIP(secondary) ELSE tryGetIP(primary)

\* The record ID and the cached content that the updater holds for a record type.
IdOf(u, type) == IF type = "A" THEN u.a ELSE u.aaaa

CachedOf(u, type) == IF type = "A" THEN u.ipv4 ELSE u.ipv6

\* updateRecord(record, content): api.DNSRecord, then PATCH when the content
\* differs; got and patched say whether the two API calls succeed.  The error it
\* returns and the content the record holds afterwards.
updateRecord(record, content, got, patched) ==
    IF ~got THEN [err |-> "get failed", content |-> zone[record]]
    ELSE IF zone[record] = content THEN [err |-> NoErr, content |-> zone[record]]
    ELSE IF ~patched THEN [err |-> "patch failed", content |-> zone[record]]
    ELSE [err |-> NoErr, content |-> content]

\* A half of updateRecords that takes the looked-up address whatever the error.
CacheAnyway(e, seen, cached) == seen

\* "if e == nil { up.ipv4 = ip } else { err = e }": the cached content afterwards.
Cache(e, seen, cached) == IF e = NoErr THEN seen ELSE cached

\* SyncDNS: newUpdater, which lists the records of the domain; an error returns.
SyncDNS ==
    /\ UNCHANGED exceptDyn
    /\ dynPc = "new"
    /\ \/ /\ dynPc' = "returned"
          /\ UNCHANGED <<up, zone, pub, dynErr, dynLast>>
       \/ \E recs \in Listings :
            LET r == loadRecords(recs, NoUpdater)
            IN  /\ zone' = [id \in IDs |->
                              IF \E i \in 1..Len(recs) : recs[i].ID = id
                              THEN (CHOOSE rec \in {recs[i] : i \in 1..Len(recs)} :
                                        rec.ID = id).Content
                              ELSE ""]
                /\ IF r.err # NoErr
                   THEN /\ dynPc' = "returned"
                        /\ UNCHANGED up
                   ELSE /\ dynPc' = "A"
                        /\ up' = r.up
                /\ UNCHANGED <<pub, dynErr, dynLast>>

\* updateRecords, the half for one record type: "if up.a != \"\"" (or up.aaaa),
\* the look-up, the update of the record, and the cache.
updateHalf(type, next) ==
    /\ UNCHANGED exceptDyn
    /\ dynPc = type
    /\ dynPc' = next
    /\ IF IdOf(up, type) = ""
       THEN UNCHANGED <<up, zone, pub, dynErr, dynLast>>
       ELSE \E primary, secondary \in Traces(pub[type]), got, patched \in BOOLEAN :
              LET look   == publicIP(primary, secondary)
                  cached == CachedOf(up, type)
                  call   == look.err = NoErr /\ look.ip # cached
                  upd    == updateRecord(IdOf(up, type), look.ip, got, patched)
                  e      == IF call THEN upd.err ELSE look.err
                  new    == Cache(e, look.ip, cached)
              IN  /\ zone' = IF call THEN [zone EXCEPT ![IdOf(up, type)] = upd.content]
                             ELSE zone
                  /\ up' = IF type = "A" THEN [up EXCEPT !.ipv4 = new]
                           ELSE [up EXCEPT !.ipv6 = new]
                  /\ dynErr' = IF e = NoErr THEN dynErr ELSE e
                  /\ dynLast' = [type |-> type, looked |-> look.err = NoErr,
                                 ip |-> look.ip, differs |-> look.ip # cached,
                                 called |-> call, e |-> e, was |-> cached, is |-> new]
                  /\ UNCHANGED pub

\* updateRecords: the half for the A record.
updateA ==
    /\ dynPc = "A"
    /\ updateHalf("A", "AAAA")

\* updateRecords: the half for the AAAA record, and the return to SyncDNS, which
\* logs an error.
updateAAAA ==
    /\ dynPc = "AAAA"
    /\ updateHalf("AAAA", "sleep")

\* SyncDNS: time.Sleep(polling), and the next iteration calls updateRecords.
Sleep ==
    /\ UNCHANGED exceptDyn
    /\ dynPc = "sleep"
    /\ dynPc' = "A"
    /\ dynErr' = NoErr
    /\ UNCHANGED <<up, zone, pub, dynLast>>

\* The host gets another public address.
Renumber ==
    /\ UNCHANGED exceptDyn
    /\ dynPc # "returned"
    /\ \E a \in IPv4s, q \in IPv6s : pub' = [A |-> a, AAAA |-> q]
    /\ pub' # pub
    /\ UNCHANGED <<dynPc, up, zone, dynErr, dynLast>>

NextDyn ==
    \/ SyncDNS
    \/ updateA
    \/ updateAAAA
    \/ Sleep
    \/ Renumber

\* SyncDNS runs in a goroutine of its own: its next step is taken (each HTTP
\* request ends within the client's five seconds, and Sleep within polling).
SpecDyn ==
    Init /\ [][NextDyn]_vars
         /\ WF_vars(SyncDNS) /\ WF_vars(updateA) /\ WF_vars(updateAAAA) /\ WF_vars(Sleep)

\* ------------------------------------------------- package origin: serveMux
\* What serveMux does not change.
exceptMux == <<origin, cforigin, dyndns, acmecf, dns>>

\* A Host header or a server name is a string, kept as the sequence of its
\* tokens: "a" is a run of characters other than ':', '[' and ']'.
Tokens == {"a", ":", "[", "]"}

RECURSIVE Strings(_)
Strings(n) ==
    IF n = 0 THEN {<<>>}
    ELSE Strings(n - 1) \cup { Append(h, c) : h \in Strings(n - 1), c \in Tokens }

\* The requests a server can get: without TLS, or with the server name of the
\* handshake (none, a name, a bracketed name, a name with two colons in it).
Requests ==
    [TLS : {FALSE}, ServerName : {<<>>}, Host : Strings(MaxHost)]
      \cup [TLS : {TRUE},
            ServerName : {<<>>, <<"a">>, <<"[", "a", "]">>, <<"a", ":", "a", ":", "a">>},
            Host : Strings(MaxHost)]

\* strings.IndexByte and LastIndexByte, counting from 1; 0 when c is not in h.
IndexByte(h, c) ==
    IF \E i \in 1..Len(h) : h[i] = c
    THEN CHOOSE i \in 1..Len(h) : h[i] = c /\ \A j \in 1..(i - 1) : h[j] # c
    ELSE 0

LastIndexByte(h, c) ==
    IF \E i \in 1..Len(h) : h[i] = c
    THEN CHOOSE i \in 1..Len(h) : h[i] = c /\ \A j \in (i + 1)..Len(h) : h[j] # c
    ELSE 0

From(h, i) == SubSeq(h, i, Len(h))

\* net.SplitHostPort: "host:port" or "[host]:port"; an error when there is no
\* port, when colons or brackets are misplaced.
SplitHostPort(h) ==
    LET i   == LastIndexByte(h, ":")
        end == IndexByte(h, "]")
        bad(why) == [host |-> <<>>, port |-> <<>>, err |-> why]
        ok(host) == [host |-> host, port |-> From(h, i + 1), err |-> NoErr]
    IN  IF i = 0 THEN bad("missing port in address")
        ELSE IF h[1] = "["
        THEN IF end = 0 THEN bad("missing ']' in address")
             ELSE IF end = Len(h) THEN bad("missing port in address")
             ELSE IF end + 1 # i
             THEN IF h[end + 1] = ":" THEN bad("too many colons in address")
                  ELSE bad("missing port in address")
             ELSE IF IndexByte(From(h, 2), "[") # 0 THEN bad("unexpected '[' in address")
             ELSE IF IndexByte(From(h, end + 1), "]") # 0 THEN bad("unexpected ']' in address")
             ELSE ok(SubSeq(h, 2, end - 1))
        ELSE IF IndexByte(SubSeq(h, 1, i - 1), ":") # 0 THEN bad("too many colons in address")
        ELSE IF IndexByte(h, "[") # 0 THEN bad("unexpected '[' in address")
        ELSE IF IndexByte(h, "]") # 0 THEN bad("unexpected ']' in address")
        ELSE ok(SubSeq(h, 1, i - 1))

\* A match that compares the server name with the whole Host header.
MatchWholeHost(r) == ~r.TLS \/ r.ServerName = r.Host

\* MatchHostServerName: true without TLS; else the server name is the host that
\* SplitHostPort finds in r.Host, or r.Host itself when SplitHostPort fails.
MatchHostServerName(r) ==
    IF ~r.TLS THEN TRUE
    ELSE LET split == SplitHostPort(r.Host)
             host  == IF split.err # NoErr THEN r.Host ELSE split.host
         IN  r.ServerName = host

\* serveMux: http.DefaultServeMux.ServeHTTP(w, r), which writes a status of its
\* own, or w.WriteHeader(http.StatusForbidden).
serveMux ==
    /\ UNCHANGED exceptMux
    /\ muxStatus = 0
    /\ \E r \in Requests :
         /\ muxRequest' = r
         /\ IF MatchHostServerName(r)
            THEN /\ muxServed' = TRUE
                 /\ muxStatus' \in {200, 404}
            ELSE /\ muxServed' = FALSE
                 /\ muxStatus' = 403

\* The response is sent; the server goes on to the next request.
Respond ==
    /\ UNCHANGED exceptMux
    /\ muxStatus # 0
    /\ muxRequest' = NoRequest
    /\ muxStatus' = 0
    /\ muxServed' = FALSE

NextMux ==
    \/ serveMux
    \/ Respond

SpecMux == Init /\ [][NextMux]_vars

\* ---------------------------------------------------------- package acmecf
\* What no step of package acmecf changes.
exceptAcme == <<origin, cforigin, dyndns, mux, dns>>

\* The challenges acmez hands to the solver: the type, and for DNS-01 the name
\* and the content of the TXT record.
Challenges ==
    [Type : {"dns-01", "http-01"}, Name : {"_acme-challenge.a"}, Content : {"k1", "k2"}]

\* ListDNSRecords with Type TXT, Name and Content of the challenge.
Matching(chal) ==
    { rec \in acmeZone : rec.Name = chal.Name /\ rec.Content = chal.Content }

\* A Present that forgets the remembered record when it fails.
PresentForgets ==
    /\ UNCHANGED exceptAcme
    /\ \E chal \in Challenges :
         IF chal.Type # "dns-01"
         THEN /\ acmeLast' = [op |-> "Present", err |-> "unexpected challenge",
                              deleted |-> NoRecord]
              /\ acmeRecord' = NoRecord
              /\ UNCHANGED <<acmeZone, acmeNext, acmeKept>>
         ELSE \/ /\ acmeNext <= MaxRecords
                 /\ acmeZone' = acmeZone \cup
                        {[ID |-> acmeNext, Name |-> chal.Name, Content |-> chal.Content]}
                 /\ acmeNext' = acmeNext + 1
                 /\ acmeRecord' = acmeNext
                 /\ acmeKept' = acmeNext
                 /\ acmeLast' = [op |-> "Present", err |-> NoErr, deleted |-> NoRecord]
              \/ \E res \in {{}, Matching(chal)} :
                   /\ IF Cardinality(res) = 1
                      THEN /\ acmeRecord' = (CHOOSE rec \in res : TRUE).ID
                           /\ acmeKept' = (CHOOSE rec \in Matching(chal) : TRUE).ID
                           /\ acmeLast' = [op |-> "Present", err |-> NoErr,
                                           deleted |-> NoRecord]
                      ELSE /\ acmeLast' = [op |-> "Present", err |-> "create failed",
                                           deleted |-> NoRecord]
                           /\ acmeRecord' = NoRecord
                           /\ UNCHANGED acmeKept
                   /\ UNCHANGED <<acmeZone, acmeNext>>

\* Present: CreateDNSRecord; when it fails, ListDNSRecords, whose error is
\* dropped (res is then empty), and the one record it found is taken.
Present ==
    /\ UNCHANGED exceptAcme
    /\ \E chal \in Challenges :
         IF chal.Type # "dns-01"
         THEN /\ acmeLast' = [op |-> "Present", err |-> "unexpected challenge",
                              deleted |-> NoRecord]
              /\ UNCHANGED <<acmeRecord, acmeZone, acmeNext, acmeKept>>
         ELSE \/ /\ acmeNext <= MaxRecords
                 /\ acmeZone' = acmeZone \cup
                        {[ID |-> acmeNext, Name |-> chal.Name, Content |-> chal.Content]}
                 /\ acmeNext' = acmeNext + 1
                 /\ acmeRecord' = acmeNext
                 /\ acmeKept' = acmeNext
                 /\ acmeLast' = [op |-> "Present", err |-> NoErr, deleted |-> NoRecord]
              \/ \E res \in {{}, Matching(chal)} :
                   /\ IF Cardinality(res) = 1
                      THEN /\ acmeRecord' = (CHOOSE rec \in res : TRUE).ID
                           /\ acmeKept' = (CHOOSE rec \in Matching(chal) : TRUE).ID
                           /\ acmeLast' = [op |-> "Present", err |-> NoErr,
                                           deleted |-> NoRecord]
                      ELSE /\ acmeLast' = [op |-> "Present", err |-> "create failed",
                                           deleted |-> NoRecord]
                           /\ UNCHANGED <<acmeRecord, acmeKept>>
                   /\ UNCHANGED <<acmeZone, acmeNext>>

\* CleanUp: nothing when s.record is ""; else DeleteDNSRecord(s.record), which
\* fails when the request fails or the zone has no such record.
CleanUp ==
    /\ UNCHANGED exceptAcme
    /\ IF acmeRecord = NoRecord
       THEN /\ acmeLast' = [op |-> "CleanUp", err |-> NoErr, deleted |-> NoRecord]
            /\ UNCHANGED acmeZone
       ELSE \/ /\ \E rec \in acmeZone : rec.ID = acmeRecord
               /\ acmeZone' = { rec \in acmeZone : rec.ID # acmeRecord }
               /\ acmeLast' = [op |-> "CleanUp", err |-> NoErr, deleted |-> acmeRecord]
            \/ /\ acmeLast' = [op |-> "CleanUp", err |-> "delete failed",
                               deleted |-> NoRecord]
               /\ UNCHANGED acmeZone
    /\ UNCHANGED <<acmeRecord, acmeNext, acmeKept>>

NextAcme ==
    \/ Present
    \/ CleanUp

SpecAcme == Init /\ [][NextAcme]_vars

\* ------------------------------------------------------------- package dns
\* What no step of package dns changes.
exceptDns == <<origin, cforigin, dyndns, mux, acmecf>>

\* An index that is advanced without "% len(addrs)".
NextIndexUnwrapped(i) == i + 1

\* "(index + 1) % len(addrs)", for the index i that was read.
NextIndex(i) == (i + 1) % Len(addrs)

\* The resolver calls Dial; the calls of concurrent look-ups run concurrently.
Dial(t) ==
    /\ UNCHANGED exceptDns
    /\ dialPc[t] = "idle"
    /\ dialPc' = [dialPc EXCEPT ![t] = "dial"]
    /\ dialI' = [dialI EXCEPT ![t] = 0]
    /\ UNCHANGED <<index, dialAt, dialTmp, dialLast>>

\* Dial, in the loop: d.DialContext(ctx, "tcp", addrs[index]); a connection is
\* returned at once, an error is kept in err and the index is advanced next.
Attempt(t) ==
    /\ UNCHANGED exceptDns
    /\ dialPc[t] = "dial"
    /\ dialI[t] < Len(addrs)
    /\ \/ /\ dialPc' = [dialPc EXCEPT ![t] = "idle"]
          /\ dialLast' = [task |-> t, err |-> NoErr, attempts |-> dialI[t] + 1,
                          addr |-> addrs[index + 1]]
          /\ dialI' = [dialI EXCEPT ![t] = 0]
          /\ dialAt' = [dialAt EXCEPT ![t] = 0]
       \/ /\ dialPc' = [dialPc EXCEPT ![t] = "load"]
          /\ dialAt' = [dialAt EXCEPT ![t] = index]
          /\ UNCHANGED <<dialI, dialLast>>
    /\ UNCHANGED <<index, dialTmp>>

\* "index = (index + 1) % len(addrs)": the read of index.
LoadIndex(t) ==
    /\ UNCHANGED exceptDns
    /\ dialPc[t] = "load"
    /\ dialTmp' = [dialTmp EXCEPT ![t] = index]
    /\ dialPc' = [dialPc EXCEPT ![t] = "store"]
    /\ UNCHANGED <<index, dialI, dialAt, dialLast>>

\* "index = (index + 1) % len(addrs)": the write of index; then "continue", and
\* after the last turn of the loop "return" with the error of the last attempt.
StoreIndex(t) ==
    /\ UNCHANGED exceptDns
    /\ dialPc[t] = "store"
    /\ index' = NextIndex(dialTmp[t])
    /\ dialTmp' = [dialTmp EXCEPT ![t] = 0]
    /\ IF dialI[t] + 1 < Len(addrs)
       THEN /\ dialPc' = [dialPc EXCEPT ![t] = "dial"]
            /\ dialI' = [dialI EXCEPT ![t] = @ + 1]
            /\ UNCHANGED <<dialAt, dialLast>>
       ELSE /\ dialPc' = [dialPc EXCEPT ![t] = "idle"]
            /\ dialLast' = [task |-> t, err |-> "dial failed", attempts |-> dialI[t] + 1,
                            addr |-> addrs[dialAt[t] + 1]]
            /\ dialI' = [dialI EXCEPT ![t] = 0]
            /\ dialAt' = [dialAt EXCEPT ![t] = 0]

NextDns ==
    \/ \E t \in Tasks : Dial(t)
    \/ \E t \in Tasks : Attempt(t)
    \/ \E t \in Tasks : LoadIndex(t)
    \/ \E t \in Tasks : StoreIndex(t)

SpecDns == Init /\ [][NextDns]_vars

\* ------------------------------------------------------------ properties
SoftFailure == ev.how \in {"failedV4", "failedV6"}

\* The last call ended by returning to its caller.
Returned == ev.how \in {"hit", "throttled", "failedV4", "failedV6", "published"}

\* C1: once a set has been stored in ips, ips never holds the nil interface again:
\* no step of any call takes the published set from present to absent.
C1_NeverAbsentAgain == [][ips.present => ips'.present]_vars

\* A refresh failed while a set was published, and the set is still there.
C1_Witness == SoftFailure /\ ips.present /\ ips.v # <<>>

\* C2: the process is dead only through a fetch that failed while nothing had ever
\* been published, and such a failure always kills it: a failed fetch that
\* returned to its caller found a published set, and the process lives on.
C2_FatalOnlyAtBootstrap ==
    /\ ~alive => ev.how = "fatal" /\ ~ips.present /\ ~panicked
    /\ ev.how = "fatal" => ~alive /\ ~ips.present
    /\ SoftFailure => alive /\ ips.present

\* The first fetch failed and the process is gone.
C2_Witness == ~alive /\ ev.how = "fatal" /\ ev.tries = 1

\* C3 as stated: of two calls of updateIPs that begin within one hour of each
\* other, at most one makes a fetch attempt.  Here: a call that began within the
\* hour after the beginning of the call that made the latest attempt makes none.
C3_Original == [][\A t \in Tasks : tries'[t] > tries[t] => ~early[t]]_vars

\* C3 as amended: of two calls of updateIPs whose tests of time.Since(refresh),
\* made under the lock, fall within one hour of each other, at most one makes a
\* fetch attempt: every fetch attempt comes more than one hour after the one
\* before it, whether that one succeeded or failed.
C3_AttemptsAnHourApart ==
    [][\A t \in Tasks : tries'[t] > tries[t] /\ lastAt # 0 => now - lastAt > Hour]_vars

\* After bootstrap an attempt failed, and a call that holds the lock within the
\* hour of that attempt is about to be turned away without fetching.
C3_Witness ==
    /\ SoftFailure
    /\ \E t \in Tasks : pc[t] = "locked" /\ early[t] /\ now - lastAt <= Hour

\* C4: at most one task is between mutex.Lock() and the return of updateIPs.
C4_OneInSection == Cardinality({t \in Tasks : InSection(t)}) <= 1

\* One task is fetching while another waits for the lock.
C4_Witness ==
    \E t, u \in Tasks : t # u /\ pc[t] \in {"fetch4", "fetch6"} /\ pc[u] = "lock"

\* C5: a checkIP call whose IP is in some network of the set it loaded returns true.
C5_LoadedImpliesTrue == Returned /\ ev.conn /\ ev.inLoaded => ev.result

\* A call was answered from the loaded set, which holds more than one network.
C5_Witness == ev.how = "hit" /\ ev.inLoaded /\ Len(ips.v) > 1

\* C6: a checkIP call whose IP is in no network of any set published during the
\* call returns false, having called updateIPs at most once and so having made at
\* most one fetch attempt.
C6_OutsideImpliesFalse ==
    Returned /\ ev.conn /\ ~ev.covered =>
        ~ev.result /\ ev.updCalls <= 1 /\ ev.tries <= 1

\* A call refreshed the set, and the new set does not hold its IP either.
C6_Witness ==
    ev.conn /\ ev.how = "published" /\ ~ev.covered /\ ~ev.result /\ ips.v # <<>>

\* C7: a checkIP call that missed in the set it loaded calls updateIPs exactly once
\* and returns whether its IP is in the slice updateIPs returned; so a call that
\* is turned away within the hour returns true when the set published by then
\* holds its IP.
C7_ResultFromUpdate ==
    Returned /\ ev.conn /\ ~ev.inLoaded =>
        /\ ev.updCalls = 1
        /\ ev.result = ev.inRet
        /\ ev.how = "throttled" /\ ev.inPub => ev.result

\* A call missed, another task published a set holding its IP, and the call,
\* turned away within the hour, returned true.
C7_Witness ==
    ev.conn /\ ev.how = "throttled" /\ ~ev.inLoaded /\ ev.result /\ ev.tries = 0

\* C8: when a fetch fails and a set was published before, updateIPs returns that
\* set.
C8_StaleReturned == SoftFailure => ev.retIsPub

\* C9: a fetch attempt publishes nothing before both lists are fetched and parsed,
\* and one that fails leaves ips holding exactly what it held when the attempt began.
C9_NothingPartial ==
    /\ \A t \in Tasks : pc[t] \in {"fetch4", "fetch6"} => ips = before[t]
    /\ SoftFailure => ev.kept

\* The IPv4 list was fetched, the IPv6 list failed, and the set published before
\* is still the published one.
C9_Witness == ev.how = "failedV6" /\ ev.kept /\ ips.v # <<>>

\* C10: a checkIP call whose refresh failed returns whether its IP is in the set
\* that is published when the call returns.
C10_FailureUnseen == SoftFailure /\ ev.conn => ev.result = ev.inPub

\* The lists a successful loadIPs can return.
Fetched == { loadIPs(resp).ips : resp \in { r \in Responses : ~loadIPs(r).err } }

\* C11: ips holds nothing or the IPv4 list of one fetch followed by an IPv6 list,
\* and every step that changes ips is the end of one attempt, which stores the
\* IPv4 list that very attempt fetched followed by the IPv6 list it fetched: no
\* step stores a part of an attempt, mixes two attempts or alters a stored set.
C11_WholeAttemptOnly ==
    [][/\ ips.present => \E a, b \in Fetched : ips.v = a \o b
       /\ ips' # ips =>
            \E t \in Tasks :
                /\ pc[t] = "fetch6" /\ pc'[t] = "idle" /\ ips = before[t]
                /\ \E resp \in Responses :
                     /\ ~loadIPs(resp).err
                     /\ ips' = Stored(ipv4[t] \o loadIPs(resp).ips)]_vars

\* A connection took its set from ips and waits for the lock, while a refresh that
\* has its IPv4 list and not yet its IPv6 list is about to replace that set.
C11_Witness ==
    \E t, u \in Tasks :
        /\ t # u /\ pc[t] = "fetch6" /\ ipv4[t] # <<>> /\ pc[u] = "lock" /\ IsConn(u)
        /\ ips.present /\ ips.v # <<>> /\ ips.v # ipv4[t]

\* Some remote address is in the published set.
SomeAllowed == \E addr \in RemoteAddrs : Covers(ips.v, AddrIP(addr))

\* A checkIP call of t that is answered from the set it loaded, in one step that
\* leaves the mutex as it is.
HitWithoutLock(t) == CheckIP(t) /\ ev'.how = "hit" /\ pc'[t] = "idle" /\ mutex' = mutex

\* C12: a checkIP call is inside updateIPs (waiting for the mutex or holding it)
\* only when its IP was not in the set it loaded; a call whose IP was in that set
\* returned without calling updateIPs; and whenever an address is in the published
\* set, a call for it can complete at once, whether or not the mutex is held.
C12_LockOnlyOnMiss ==
    /\ \A t \in Tasks : IsConn(t) /\ InUpdate(t) => ~inLoaded[t]
    /\ Returned /\ ev.conn /\ ev.inLoaded => ev.how = "hit" /\ ev.updCalls = 0
    /\ \A t \in Tasks :
         alive /\ IsConn(t) /\ pc[t] = "idle" /\ SomeAllowed => ENABLED HitWithoutLock(t)

\* Another task holds the mutex in the middle of a fetch, and a call for an
\* address inside the published set can complete.
C12_Witness ==
    \E t, u \in Tasks :
        /\ mutex /\ pc[t] \in {"fetch4", "fetch6"}
        /\ IsConn(u) /\ pc[u] = "idle" /\ SomeAllowed /\ ENABLED HitWithoutLock(u)

\* The refresh state: what checkIP and updateIPs read and write.
gate == <<ips, mutex, refresh, pc, ip, updCalls, tries, ev>>

\* GetCertificate has answered a hello.
Answered == out.kind = "cert"

\* C13: every answer to a hello with an empty server name is the nil certificate
\* with errMissingServerName, whatever the certificates, the remote address and
\* filterIPs, and the step that gives it has not called checkIP: it leaves the
\* published set, the mutex, the refresh time and every task where they were.
C13_EmptyNameRefused ==
    [][out'.kind = "cert" /\ out'.ServerName = "" =>
          /\ out'.cert = NoCert /\ out'.err = errMissingServerName /\ ~out'.gated
          /\ out' # out => UNCHANGED gate]_vars

\* A hello without a server name was refused by a server that filters IPs and
\* holds a certificate the hello supports, after a set had been published.
C13_Witness ==
    /\ Answered /\ out.ServerName = "" /\ out.err = errMissingServerName
    /\ filterIPs /\ ips.present
    /\ \E i \in 1..Len(cert) : SupportsCertificate(out, cert[i])

\* The configured certificates that a hello supports, by index.
Supported(info) == { i \in 1..Len(cert) : SupportsCertificate(info, cert[i]) }

\* The answer in out came with the result of checkIP that ev holds: allowed or not.
Allowed == Returned => ev.result

Disallowed == Returned => ~ev.result

\* C14: the answer to a hello with a server name is one of three: (a) no error and
\* the first certificate, in configured order, that the hello supports, and then,
\* when filterIPs is set, checkIP was called and returned true; (b)
\* errMismatchedServerName and no certificate, when the hello supports none; (c)
\* errNotCloudflare and no certificate, when it supports one, filterIPs is set and
\* checkIP returned false.  A certificate never comes with an error, and is
\* always one the hello supports.
C14_OneOfThree ==
    Answered /\ out.ServerName # "" =>
        /\ \/ /\ out.err = NoErr
              /\ out.cert \in Supported(out)
              /\ \A i \in Supported(out) : out.cert <= i
              /\ out.gated = filterIPs
              /\ out.gated => Allowed
           \/ /\ out.err = errMismatchedServerName
              /\ out.cert = NoCert
              /\ Supported(out) = {}
              /\ ~out.gated
           \/ /\ out.err = errNotCloudflare
              /\ out.cert = NoCert
              /\ Supported(out) # {}
              /\ filterIPs /\ out.gated /\ Disallowed
        /\ out.cert # NoCert => out.err = NoErr /\ out.cert \in Supported(out)

\* A server that filters IPs answered with its second certificate, the first one
\* that the hello supports, after checkIP had let the address pass.
C14_Witness ==
    /\ Answered /\ out.err = NoErr /\ out.cert = 2 /\ Supported(out) = {2}
    /\ filterIPs /\ out.gated /\ ev.result

\* C15: a hello with an empty server name, or one that supports none of the
\* configured certificates, is answered without a call of checkIP: the step that
\* answers it leaves the published set, the mutex, the refresh time and every task
\* where they were, and every call of checkIP in progress was made for a hello
\* with a server name and with the certificate found for it.
C15_GateAfterMatch ==
    [][/\ out'.kind = "cert" /\ (out'.ServerName = "" \/ Supported(out') = {}) =>
            /\ ~out'.gated
            /\ out' # out => UNCHANGED gate
       /\ \A t \in Tasks :
            frame'[t].kind = "hello" =>
                /\ frame'[t].ServerName # ""
                /\ frame'[t].found \in Supported(frame'[t])]_vars

\* A server that filters IPs and has certificates refused a hello for a name it has
\* no certificate for, and no fetch has ever been attempted.
C15_Witness ==
    /\ filterIPs /\ cert # <<>>
    /\ Answered /\ out.ServerName = "c" /\ out.err = errMismatchedServerName
    /\ refresh = 0 /\ ~ips.present /\ ~mutex

\* The answer o refuses a hello whose name matches no configured certificate.
MismatchRefusal(o) ==
    o.kind = "cert" /\ o.ServerName # "" /\ Supported(o) = {}

\* The answer o refuses a hello that supports a configured certificate: its
\* address did not pass checkIP.
DisallowedRefusal(o) ==
    o.kind = "cert" /\ o.ServerName # "" /\ Supported(o) # {} /\ o.gated /\ o.err # NoErr

\* C16 as stated: when the refusal of a hello with a mismatched name is followed
\* by the refusal of a hello with a matching name from a disallowed address, the
\* two answers are the same: no certificate, and the same error.
C16_Original ==
    [][MismatchRefusal(out) /\ DisallowedRefusal(out') =>
          out'.cert = out.cert /\ out'.err = out.err]_vars

\* C16 as amended: the two answers both hold no certificate and both hold an
\* error, and the errors differ: errMismatchedServerName for the mismatched name,
\* errNotCloudflare for the disallowed address.
C16_NoCertificateEitherWay ==
    [][MismatchRefusal(out) /\ DisallowedRefusal(out') =>
          /\ out.cert = NoCert /\ out'.cert = NoCert
          /\ out.err = errMismatchedServerName /\ out'.err = errNotCloudflare]_vars

\* A hello that supports a configured certificate was refused because checkIP,
\* having fetched the lists, returned false for its address.
C16_Witness ==
    /\ DisallowedRefusal(out) /\ filterIPs
    /\ ev.conn /\ ev.how = "published" /\ ~ev.result

\* C19: the server's tls.Config requires and verifies a client certificate exactly
\* when a pool was given to NewServerWithCerts, and then against that pool,
\* whatever the certificates and filterIPs; and the same tls.Config holds the
\* callback made from those certificates and that filterIPs.
C19_ClientAuthIffPool ==
    server.kind = "server" =>
        /\ server.ClientAuth = "RequireAndVerifyClientCert" <=> pullCA # NoPool
        /\ pullCA # NoPool => server.ClientCAs = pullCA
        /\ pullCA = NoPool => server.ClientAuth = "NoClientCert" /\ server.ClientCAs = NoPool
        /\ server.GetCertificate = [filterIPs |-> filterIPs, cert |-> cert]
        /\ server.MinVersion = "TLS13"

\* A server built with the pool and with IP filtering asks for a client
\* certificate, and its callback has handed out a certificate after checkIP.
C19_Witness ==
    /\ pullCA # NoPool /\ filterIPs /\ cert # <<>>
    /\ server.ClientAuth = "RequireAndVerifyClientCert"
    /\ Answered /\ out.err = NoErr /\ out.gated

\* Accept has returned a connection on which nothing has been done yet.
Fresh(o) ==
    /\ o.kind = "conn" /\ o.value # "nil"
    /\ o.io = NoOp /\ ~o.rd /\ ~o.wr /\ ~o.shut

\* C17: what Accept returns for a connection goes by what checkIP returned for its
\* remote address; when that was false, the connection is closed from the moment
\* Accept returns and no byte is ever read from it or written to it through the
\* returned value; bytes are read or written only when it was true.
C17_ClosedBeforeReturn ==
    [][/\ out' # out /\ Fresh(out') => ev'.conn /\ ev'.result = out'.allowed
       /\ out'.kind = "conn" /\ out'.value # "nil" =>
            /\ ~out'.allowed => out'.closed /\ ~out'.rd /\ ~out'.wr
            /\ out'.rd \/ out'.wr => out'.allowed]_vars

\* checkIP turned a connection down after fetching the lists, and a Read on what
\* Accept returned for it has failed.
C17_Witness ==
    /\ out.kind = "conn" /\ ~out.allowed /\ out.value # "nil"
    /\ out.closed /\ out.io = errNotCloudflare /\ ~out.shut
    /\ ev.conn /\ ev.how = "published" /\ ~ev.result

\* C18 as stated: the decoy is returned with a nil error, every Read and Write on
\* it fails with an error, and the connection inside it is not closed.
C18_Original ==
    out.kind = "conn" /\ out.value = "conn{c}" =>
        /\ out.err = NoErr
        /\ out.io \in {NoOp, errNotCloudflare} /\ ~out.rd /\ ~out.wr
        /\ ~out.closed

\* C18 as amended: the decoy is returned with a nil error, every Read and Write
\* on it fails with errNotCloudflare and moves no byte, and the connection inside
\* it is closed, by Accept, from the moment Accept returns; Close on the decoy
\* changes nothing of that.
C18_DecoyOverClosed ==
    out.kind = "conn" /\ out.value = "conn{c}" =>
        /\ out.err = NoErr
        /\ out.io \in {NoOp, errNotCloudflare} /\ ~out.rd /\ ~out.wr
        /\ out.closed /\ ~out.allowed

\* A decoy was returned; a Read or Write on it has failed and Close was called on it.
C18_Witness ==
    /\ out.kind = "conn" /\ out.value = "conn{c}" /\ out.err = NoErr
    /\ out.io = errNotCloudflare /\ out.shut /\ out.closed

\* C20: every call of updateIPs, and so every call of checkIP, that has begun
\* returns in the end, unless the process terminates: no task waits for the
\* mutex forever.
C20_CallsReturn ==
    \A t \in Tasks : (pc[t] # "idle") ~> (pc[t] = "idle" \/ ~alive)

\* After a refresh that failed and returned, a connection waits for the mutex
\* while another task holds it in the middle of a fetch.
C20_Witness ==
    /\ SoftFailure /\ mutex
    /\ \E t, u \in Tasks :
         IsConn(t) /\ pc[t] = "lock" /\ pc[u] \in {"fetch4", "fetch6"}

\* C23: in a live process, whenever the mutex is free and an attempt has been made
\* (refresh is set), a set is published; so a call that holds the mutex and finds
\* that at most one hour has passed since the last attempt finds a set in ips, and
\* the type assertion of the throttled branch never panics.
C23_AssertionNeverFails ==
    /\ ~panicked
    /\ alive /\ ~mutex /\ refresh # 0 => ips.present
    /\ \A t \in Tasks : alive /\ pc[t] = "locked" /\ ~Due => ips.present

\* A call took the throttled branch after an attempt that failed and left the
\* set published before it in place.
C23_Witness ==
    /\ alive /\ ips.present /\ refresh # 0
    /\ \E t \in Tasks : pc[t] = "locked" /\ ~Due /\ tries[t] = 0
    /\ SoftFailure

\* C21: in package cforigin every access to ips is made under the mutex: in no
\* reachable state is one task at a range loop of checkIP, about to read ips,
\* while another is in updateIPs at the assignment to ips.
C21_NoReadDuringAssign ==
    \A t, u \in Tasks :
        t # u => ~(cfPc[t] \in {"loop1", "loop2"} /\ cfPc[u] = "assign")

\* SyncDNS has its updater and is in its loop.
Polling == dynPc \in {"A", "AAAA", "sleep"}

\* C22: once SyncDNS has its updater it never returns; every iteration comes to
\* its end and is followed by the next one, whether updateRecords failed or not.
\* A half of updateRecords leaves in the cache the address it looked up when the
\* look-up succeeded and, the address differing from the cached one, the update
\* of the record succeeded too (and then the record holds that address);
\* otherwise it leaves the cache as it was, and a later half that looks up an
\* address other than the cached one calls updateRecord again.
C22_KeepsPolling ==
    /\ [][Polling => Polling']_vars
    /\ [](dynLast.type # "" =>
            /\ dynLast.is = IF dynLast.looked /\ (dynLast.differs => dynLast.called /\ dynLast.e = NoErr)
                            THEN dynLast.ip ELSE dynLast.was
            /\ dynLast.e # NoErr => dynLast.is = dynLast.was
            /\ dynLast.called /\ dynLast.e = NoErr => zone[IdOf(up, dynLast.type)] = dynLast.ip
            /\ dynLast.looked /\ dynLast.differs => dynLast.called)
    /\ (dynPc = "A") ~> (dynPc = "sleep")
    /\ (dynPc = "sleep") ~> (dynPc = "A" /\ dynErr = NoErr)

\* An update of a record failed, the cache kept the old address, which is not the
\* public one, and after the sleep the next iteration is about to begin.
C22_Witness ==
    /\ dynPc = "A" /\ dynErr = NoErr
    /\ dynLast.called /\ dynLast.e = "patch failed"
    /\ dynLast.is = dynLast.was /\ dynLast.is # pub[dynLast.type]

\* The tokens of h are none of ':', '[', ']'.
Plain(h) == \A i \in 1..Len(h) : h[i] = "a"

\* The strings free of colons and brackets.
Plains == { [i \in 1..n |-> "a"] : n \in 0..MaxHost }

\* h is "n:port", n and port being free of colons and brackets.
NamePort(h, n) ==
    /\ Plain(n)
    /\ \E port \in Plains : h = n \o <<":">> \o port

\* h is "[n]:port", n being free of brackets and port of colons and brackets.
BracketedPort(h, n) ==
    /\ \A i \in 1..Len(n) : n[i] \notin {"[", "]"}
    /\ \E port \in Plains : h = <<"[">> \o n \o <<"]", ":">> \o port

\* h is of one of the two forms, for some n.
HasPort(h) ==
    \E i, j \in 0..Len(h) :
        i <= j /\ (NamePort(h, SubSeq(h, 1, j)) \/ BracketedPort(h, SubSeq(h, i + 1, j)))

\* The Host header with its port stripped: without what follows the last colon,
\* when that colon is outside brackets; and the same without enclosing brackets.
StripPort(h) ==
    IF LastIndexByte(h, ":") > LastIndexByte(h, "]")
    THEN SubSeq(h, 1, LastIndexByte(h, ":") - 1)
    ELSE h

Unbracket(h) ==
    IF Len(h) >= 2 /\ h[1] = "[" /\ h[Len(h)] = "]" THEN SubSeq(h, 2, Len(h) - 1) ELSE h

\* C24 as stated: a request reaches http.DefaultServeMux only if it is not a TLS
\* request or its server name equals the Host header with any port stripped (with
\* or without the brackets around the host); any other request is answered 403.
C24_Original ==
    /\ muxServed =>
         \/ ~muxRequest.TLS
         \/ muxRequest.ServerName = StripPort(muxRequest.Host)
         \/ muxRequest.ServerName = Unbracket(StripPort(muxRequest.Host))
    /\ muxStatus # 0 /\ ~muxServed => muxStatus = 403

\* C24 as amended: a request reaches http.DefaultServeMux exactly when it is not a
\* TLS request, or its Host header is "name:port" or "[name]:port" for its server
\* name, or its Host header is of neither form (no port, several colons outside
\* brackets, stray brackets) and is the server name itself; any other request is
\* answered 403 and http.DefaultServeMux is not invoked for it.
C24_ServedOnSplitHost ==
    muxStatus # 0 =>
        /\ muxServed <=>
             \/ ~muxRequest.TLS
             \/ NamePort(muxRequest.Host, muxRequest.ServerName)
             \/ BracketedPort(muxRequest.Host, muxRequest.ServerName)
             \/ ~HasPort(muxRequest.Host) /\ muxRequest.ServerName = muxRequest.Host
        /\ ~muxServed <=> muxStatus = 403

\* A TLS request with the Host header "[a]:a" was served under the server name "a".
C24_Witness ==
    /\ muxServed /\ muxRequest.TLS /\ muxStatus = 200
    /\ muxRequest.Host = <<"[", "a", "]", ":", "a">> /\ muxRequest.ServerName = <<"a">>

\* C25: the solver remembers the record created or adopted by the latest Present
\* that returned nil, and none when no Present has returned nil.  A call of
\* CleanUp deletes no record but that one, does nothing to the zone when none is
\* remembered, and leaves the remembered record as it is; a call of Present that
\* returns an error leaves the remembered record and the zone as they are, and
\* one that returns nil remembers a record of the zone.
C25_CleanUpDeletesRemembered ==
    [][/\ acmeRecord' = acmeKept'
       /\ acmeLast'.op = "CleanUp" =>
            /\ \A rec \in acmeZone \ acmeZone' : rec.ID = acmeKept
            /\ acmeZone' \subseteq acmeZone
            /\ acmeLast'.deleted \in {NoRecord, acmeKept}
            /\ acmeKept = NoRecord => acmeZone' = acmeZone /\ acmeLast'.err = NoErr
            /\ acmeLast'.err = NoErr /\ acmeKept # NoRecord =>
                   acmeLast'.deleted = acmeKept /\ acmeZone' # acmeZone
            /\ acmeRecord' = acmeRecord
       /\ acmeLast'.op = "Present" /\ acmeLast'.err # NoErr =>
            acmeRecord' = acmeRecord /\ acmeZone' = acmeZone
       /\ acmeLast'.op = "Present" /\ acmeLast'.err = NoErr =>
            \E rec \in acmeZone' : rec.ID = acmeRecord']_vars

\* Two records were created, the second was deleted by CleanUp, and a Present
\* for the first challenge, whose creation failed, adopted the first record.
C25_Witness ==
    /\ acmeNext = 3 /\ Cardinality(acmeZone) = 1
    /\ acmeRecord = 1 /\ acmeLast.op = "Present" /\ acmeLast.err = NoErr

\* C26: under every interleaving of concurrent calls of Dial the index is one of
\* 0..3, so addrs[index] is an upstream address.  A call makes at most four
\* attempts, each at the address the index points to when the attempt is made,
\* the first at the index as the call finds it; after a failed attempt it
\* stores the index it then reads plus one, modulo four; an attempt that succeeds
\* returns at once and leaves the index as it is; the call returns an error only
\* after four failed attempts, and then that of the last one.
C26_IndexInRange ==
    [][/\ index \in 0..(Len(addrs) - 1) /\ index' \in 0..(Len(addrs) - 1)
       /\ \A t \in Tasks :
            /\ dialI'[t] \in 0..(Len(addrs) - 1)
            /\ dialPc[t] = "dial" /\ dialPc'[t] # "dial" =>
                 /\ index' = index
                 /\ dialPc'[t] = "load" => dialAt'[t] = index
                 /\ dialPc'[t] = "idle" =>
                      /\ dialLast'.task = t /\ dialLast'.err = NoErr
                      /\ dialLast'.addr = addrs[index + 1]
                      /\ dialLast'.attempts = dialI[t] + 1
            /\ dialPc[t] = "store" /\ dialPc'[t] # "store" =>
                 /\ index' = (dialTmp[t] + 1) % 4
                 /\ dialPc'[t] = "idle" =>
                      /\ dialLast'.task = t /\ dialLast'.err # NoErr
                      /\ dialLast'.attempts = 4
                      /\ dialLast'.addr = addrs[dialAt[t] + 1]
       /\ dialLast'.err # NoErr => dialLast'.attempts = 4
       /\ dialLast'.attempts <= 4]_vars

\* A call returned the error of its fourth attempt while another call, which
\* read the index before that call advanced it, is about to store its own.
C26_Witness ==
    /\ dialLast.err # NoErr /\ dialLast.attempts = 4
    /\ \E t \in Tasks : dialPc[t] = "store" /\ dialTmp[t] # index /\ dialLast.task # t

====
